---- MODULE Spec2Model ----
(***************************************************************************)
(* TRM (exchange-rate) time-series application: the CSV-backed repository  *)
(* (python_app/src/infrastructure/repositories/trm_repository.py), the     *)
(* domain service computing statistics, moving averages, extreme           *)
(* variations and plot annotations (src/domain/services/trm_service.py),   *)
(* the application services' get_trm_data and the TRMDataLoader of         *)
(* python_app/trm_app.py and trm_data_loader.py; saving and the updaters   *)
(* (trm_data_updater.py, update_trm_data.py), two requests sharing one     *)
(* repository, the loader and the service side by side, and the            *)
(* variations and statistics requests of the presentation surfaces.        *)
(*                                                                         *)
(* Conventions of the model                                                *)
(*   - a datetime.date is [day |-> d], d its day ordinal (1..MaxDate); a   *)
(*     zero-padded date string ('YYYY-MM-DD', 'YYYY/MM/DD') is modelled by *)
(*     the ordinal d itself; the date strings of a request, which may be   *)
(*     malformed, are records [text, day];                                 *)
(*   - a date cell of the file that is no 'YYYY/MM/DD' text is 0 (no date  *)
(*     at all) or negative (the text pandas writes for a Timestamp when no *)
(*     date_format is given);                                              *)
(*   - a pandas Timestamp is [day, time]: a day and a time of day;         *)
(*     parsing a date string gives time 0 (midnight);                      *)
(*   - Python's None and the float markers are records, so that they can   *)
(*     be compared with the records they stand in for;                     *)
(*   - values are integers; derived quantities (mean, median, percent      *)
(*     change, moving average) are exact rationals [num, den] in lowest    *)
(*     terms, or the markers NaN / PosInf / NegInf.  IEEE-754 rounding of  *)
(*     the float64 arithmetic is not modelled.                             *)
(***************************************************************************)
EXTENDS Integers, Sequences, FiniteSets

VARIABLES
    file,       \* rows of the CSV file at data_path, in file order
    data_df,    \* TRMRepository._data_df: None or the cached frame
    data,       \* the List[TRMData] handed to the domain service
    call,       \* the last operation invoked, with its arguments
    ret,        \* what that operation returned (None when it raised)
    raised      \* the exception that escaped from it, None when it returned
                \* (call, ret and raised hold one entry per request in the
                \* scenarios of concurrent requests)

vars == <<file, data_df, data, call, ret, raised>>

----------------------------------------------------------------------------
(* Bounds and input domains *)

MaxDate == 3
MaxLen == 3

MaxWindow == MaxLen + 1

Dates == 1..MaxDate
Values == {0, 99, 100, 110}

None == [none |-> TRUE]
NaN == [special |-> "nan"]
PosInf == [special |-> "inf"]
NegInf == [special |-> "-inf"]

----------------------------------------------------------------------------
(* Exact arithmetic *)

Abs(x) == IF x < 0 THEN -x ELSE x

RECURSIVE GCD(_, _)
GCD(a, b) == IF b = 0 THEN a ELSE GCD(b, a % b)

\* the rational n/d (d # 0) in lowest terms with a positive denominator
Rat(n, d) ==
    LET g == GCD(Abs(n), Abs(d))
        s == IF d < 0 THEN -1 ELSE 1
    IN  [num |-> (s * n) \div g, den |-> (s * d) \div g]

IsRat(x) == x \notin {None, NaN, PosInf, NegInf}

RatLE(a, b) == a.num * b.den <= b.num * a.den

RECURSIVE SumSeq(_)
SumSeq(s) == IF s = <<>> THEN 0 ELSE Head(s) + SumSeq(Tail(s))

----------------------------------------------------------------------------
(* Domain model and conversions *)

\* datetime.date
date(d) == [day |-> d]

\* date.strftime('%Y-%m-%d')
strftime(dt) == dt.day

TRMData(f, v) == [fecha |-> f, valor |-> v]

\* TRMData.to_dict
to_dict(item) == [fecha |-> strftime(item.fecha), trm |-> item.valor]

\* pd.to_datetime(date string): midnight of that day
to_datetime(str) == [day |-> str, time |-> 0]

\* pd.Timestamp(datetime.date): midnight of that day
Timestamp(dt) == [day |-> dt.day, time |-> 0]

\* Timestamp.date(): the time of day is dropped
DateOf(ts) == date(ts.day)

TsLE(a, b) == a.day < b.day \/ (a.day = b.day /\ a.time <= b.time)

\* pd.DataFrame([item.to_dict() for item in data]) followed by
\* df['fecha'] = pd.to_datetime(df['fecha']); a frame is its sequence of rows
ToFrame(items) ==
    [i \in 1..Len(items) |->
        [fecha |-> to_datetime(to_dict(items[i]).fecha), trm |-> to_dict(items[i]).trm]]

\* for _, row in df.iterrows(): TRMData(fecha=row['fecha'].date(), valor=row['trm'])
ToTRMData(df) ==
    [i \in 1..Len(df) |-> TRMData(DateOf(df[i].fecha), df[i].trm)]

\* the orders in which the rows of df with index in S can follow one another
\* ascending by fecha
RECURSIVE SortedOrders(_, _)
SortedOrders(df, S) ==
    IF S = {}
    THEN {<<>>}
    ELSE UNION {{<<df[i]>> \o rest : rest \in SortedOrders(df, S \ {i})} :
                i \in {m \in S : \A j \in S : TsLE(df[m].fecha, df[j].fecha)}}

\* df.sort_values('fecha'): the rows reordered ascending by fecha; the
\* default sort is not stable, so rows with equal fecha come in any order
SortValues(df) == SortedOrders(df, 1..Len(df))

----------------------------------------------------------------------------
(* TRMRepository *)

\* CSV files: up to MaxLen rows <<date string, value>>, one row per calendar
\* date, in any row order
Files ==
    {f \in UNION {[1..n -> Dates \X Values] : n \in 0..MaxLen} :
        \A i, j \in 1..Len(f) : f[i][1] = f[j][1] => i = j}

\* _load_data: read_csv, columns renamed to fecha/trm, fecha parsed with
\* format '%Y/%m/%d', rows sorted by fecha
load_data(f) ==
    SortValues([i \in 1..Len(f) |-> [fecha |-> to_datetime(f[i][1]), trm |-> f[i][2]]])

\* a cell of the date column that is not a date in the '%Y/%m/%d' format:
\* no day ordinal stands for it
BadDateStr == 0

\* files that pd.read_csv reads but whose date column does not parse: a file
\* of Files with one date cell damaged
DamagedFiles ==
    UNION {{[f EXCEPT ![i] = <<BadDateStr, f[i][2]>>] : i \in 1..Len(f)} : f \in Files}

\* TRMRepository._load_data: what it returns (ok) and what it leaves in
\* self._data_df.  read_csv assigns the raw frame to self._data_df (line 41)
\* before the columns are renamed and the dates parsed; when to_datetime
\* raises (line 47) the except clause returns False and the raw frame, with
\* its date strings and in file order, stays in self._data_df
_load_data(f) ==
    IF \E i \in 1..Len(f) : f[i][1] \notin Dates
    THEN {[ok |-> FALSE, cache |-> [raw |-> f]]}
    ELSE {[ok |-> TRUE, cache |-> [rows |-> df]] : df \in load_data(f)}

\* the cached frame is the raw one: fecha holds strings, not Timestamps
IsRaw(cache) == "raw" \in DOMAIN cache

TypeError == [type |-> "TypeError"]
AttributeError == [type |-> "AttributeError"]

\* FilterFrame with the end bound exclusive (< instead of <=)
FilterFrameExclusiveEnd(df, start_date, end_date) ==
    LET afterStart ==
            IF start_date # None
            THEN SelectSeq(df, LAMBDA row : TsLE(Timestamp(start_date), row.fecha))
            ELSE df
    IN  IF end_date # None
        THEN SelectSeq(afterStart, LAMBDA row : ~TsLE(Timestamp(end_date), row.fecha))
        ELSE afterStart

\* FilterFrame with an off-by-one positional slice (.iloc[1:]) after the
\* start mask
FilterFrameSliceAfterStart(df, start_date, end_date) ==
    LET masked ==
            IF start_date # None
            THEN SelectSeq(df, LAMBDA row : TsLE(Timestamp(start_date), row.fecha))
            ELSE df
        afterStart ==
            IF start_date # None /\ masked # <<>> THEN Tail(masked) ELSE masked
    IN  IF end_date # None
        THEN SelectSeq(afterStart, LAMBDA row : TsLE(row.fecha, Timestamp(end_date)))
        ELSE afterStart

\* the two boolean-mask filters of get_by_date_range
FilterFrame(df, start_date, end_date) ==
    LET afterStart ==
            IF start_date # None
            THEN SelectSeq(df, LAMBDA row : TsLE(Timestamp(start_date), row.fecha))
            ELSE df
    IN  IF end_date # None
        THEN SelectSeq(afterStart, LAMBDA row : TsLE(row.fecha, Timestamp(end_date)))
        ELSE afterStart

OptDates == {None} \cup {date(d) : d \in Dates}

\* the outcomes of the lazy load that opens every query (lines 88-90): the
\* frame in self._data_df afterwards, and whether the query goes on
LazyLoad(cache, f) ==
    IF cache = None THEN _load_data(f) ELSE {[ok |-> TRUE, cache |-> cache]}

\* TRMRepository.get_by_date_range on the cached frame `cache` and the file
\* f: what it leaves in self._data_df, what it returns and what it raises.
\* On a raw frame a bound compares strings with a Timestamp (TypeError, line
\* 96 or 100), and without bounds row['fecha'].date() is applied to a string
\* (AttributeError, line 105); a raw frame without rows compares nothing and
\* iterates over nothing, the result is the empty list.
RepositoryGetByDateRange(cache, f, start_date, end_date) ==
    {IF ~l.ok
     THEN [data_df |-> l.cache, ret |-> <<>>, raised |-> None]
     ELSE IF IsRaw(l.cache) /\ l.cache.raw = <<>>
     THEN [data_df |-> l.cache, ret |-> <<>>, raised |-> None]
     ELSE IF IsRaw(l.cache)
     THEN [data_df |-> l.cache, ret |-> None,
           raised |-> IF start_date # None \/ end_date # None
                      THEN TypeError ELSE AttributeError]
     ELSE [data_df |-> l.cache,
           ret |-> ToTRMData(FilterFrame(l.cache.rows, start_date, end_date)),
           raised |-> None]
     : l \in LazyLoad(cache, f)}

\* TRMRepository.get_by_date_range
get_by_date_range(start_date, end_date) ==
    /\ \E out \in RepositoryGetByDateRange(data_df, file, start_date, end_date) :
          /\ data_df' = out.data_df
          /\ ret' = out.ret
          /\ raised' = out.raised
    /\ call' = [op |-> "get_by_date_range", start_date |-> start_date,
                                           end_date |-> end_date]
    /\ UNCHANGED <<file, data>>

\* the same range filter applied to the frame of the list just returned
filter_again ==
    /\ call.op = "get_by_date_range"
    /\ ret' = ToTRMData(FilterFrame(ToFrame(ret), call.start_date, call.end_date))
    /\ call' = [op |-> "filter_again", start_date |-> call.start_date,
                                      end_date |-> call.end_date, first |-> ret]
    /\ raised' = None
    /\ UNCHANGED <<file, data_df, data>>

----------------------------------------------------------------------------
(* TRMService: statistics *)

Trm(df) == [i \in 1..Len(df) |-> df[i].trm]

\* the k-th smallest (1-based) of a non-empty sequence of values
KthSmallest(vals, k) ==
    CHOOSE v \in {vals[i] : i \in 1..Len(vals)} :
        /\ Cardinality({i \in 1..Len(vals) : vals[i] < v}) < k
        /\ k <= Cardinality({i \in 1..Len(vals) : vals[i] <= v})

\* Series.min() / Series.max()
SeriesMin(vals) == KthSmallest(vals, 1)
SeriesMax(vals) == KthSmallest(vals, Len(vals))

\* SeriesMean dividing by one more than the count
SeriesMeanCountPlusOne(vals) == Rat(SumSeq(vals), Len(vals) + 1)

\* Series.mean(): sum / count
SeriesMean(vals) == Rat(SumSeq(vals), Len(vals))

\* Series.median(): the middle value, or the mean of the two middle values
SeriesMedian(vals) ==
    LET n == Len(vals)
    IN  IF n % 2 = 1
        THEN Rat(KthSmallest(vals, (n + 1) \div 2), 1)
        ELSE Rat(KthSmallest(vals, n \div 2) + KthSmallest(vals, n \div 2 + 1), 2)

\* SeriesStd as the population standard deviation (ddof=0): 0 for one value
SeriesStdPopulation(vals) ==
    LET n == Len(vals)
        sq == [i \in 1..n |-> vals[i] * vals[i]]
    IN  [sqrt |-> Rat(n * SumSeq(sq) - SumSeq(vals) * SumSeq(vals), n * n)]

\* Series.std(): sample standard deviation (ddof=1), NaN for one value; the
\* square root is kept symbolic: [sqrt |-> the sample variance]
SeriesStd(vals) ==
    LET n == Len(vals)
        sq == [i \in 1..n |-> vals[i] * vals[i]]
    IN  IF n < 2
        THEN NaN
        ELSE [sqrt |-> Rat(n * SumSeq(sq) - SumSeq(vals) * SumSeq(vals), n * (n - 1))]

\* numpy float division a / b: a zero divisor gives inf, -inf or nan
Divide(a, b) ==
    IF b # 0 THEN Rat(a, b)
    ELSE IF a > 0 THEN PosInf
    ELSE IF a < 0 THEN NegInf
    ELSE NaN

\* ChangePct without the "- 1": the ratio as a percentage
ChangePctRatioOnly(start_value, end_value) ==
    LET q == Divide(end_value, start_value)
    IN  IF IsRat(q) THEN Rat(q.num * 100, q.den) ELSE q

\* ChangePct guarding the division: 0 when start_value is 0
ChangePctZeroGuard(start_value, end_value) ==
    IF start_value = 0
    THEN Rat(0, 1)
    ELSE Rat((end_value - start_value) * 100, start_value)

\* (end_value / start_value - 1) * 100
ChangePct(start_value, end_value) ==
    LET q == Divide(end_value, start_value)
    IN  IF IsRat(q) THEN Rat((q.num - q.den) * 100, q.den) ELSE q

\* end_value - start_value
Change(start_value, end_value) == end_value - start_value

\* the TRMStatistics built from the date-sorted frame df (lines 40-53)
TRMStatistics(df) ==
    LET vals == Trm(df)
        days == {df[i].fecha.day : i \in 1..Len(df)}
        first == df[1].trm
        last == df[Len(df)].trm
    IN  [min_value |-> SeriesMin(vals),
         max_value |-> SeriesMax(vals),
         avg_value |-> SeriesMean(vals),
         median_value |-> SeriesMedian(vals),
         std_dev |-> SeriesStd(vals),
         count |-> Len(df),
         start_date |-> date(CHOOSE d \in days : \A e \in days : d <= e),
         end_date |-> date(CHOOSE d \in days : \A e \in days : e <= d),
         start_value |-> first,
         end_value |-> last,
         change |-> Change(first, last),
         change_pct |-> ChangePct(first, last)]

\* calculate_statistics guarding on fewer than two items
calculate_statistics_guard_lt2(items) ==
    IF Len(items) < 2
    THEN {None}
    ELSE {TRMStatistics(df) : df \in SortValues(ToFrame(items))}

\* calculate_statistics without the sort by fecha
calculate_statistics_unsorted(items) ==
    IF items = <<>>
    THEN {None}
    ELSE {TRMStatistics(ToFrame(items))}

\* TRMService.calculate_statistics: the results it can return for `items`
calculate_statistics(items) ==
    IF items = <<>>
    THEN {None}
    ELSE {TRMStatistics(df) : df \in SortValues(ToFrame(items))}

----------------------------------------------------------------------------
(* TRMService: moving average *)

\* RollingMean with min_periods=1: partial windows are averaged
RollingMeanMinPeriods1(vals, window) ==
    [i \in 1..Len(vals) |->
        IF window < 1 THEN NaN
        ELSE IF i >= window
        THEN Rat(SumSeq(SubSeq(vals, i - window + 1, i)), window)
        ELSE Rat(SumSeq(SubSeq(vals, 1, i)), i)]

\* RollingMean with closed='left': the window ends one row before the point
RollingMeanClosedLeft(vals, window) ==
    [i \in 1..Len(vals) |->
        IF window >= 1 /\ i > window
        THEN Rat(SumSeq(SubSeq(vals, i - window, i - 1)), window)
        ELSE NaN]

\* Rolling._validate, reached from Series.rolling(window=window): a negative
\* window raises ValueError("window must be an integer 0 or greater")
ValueError == [type |-> "ValueError"]

RollingRaises(window) == window < 0

\* Series.rolling(window=window).mean() for window >= 0: min_periods is the
\* window, so the first window-1 rows are NaN; a window of 0 rows has no
\* observation to average and every row is NaN
RollingMean(vals, window) ==
    [i \in 1..Len(vals) |->
        IF window >= 1 /\ i >= window
        THEN Rat(SumSeq(SubSeq(vals, i - window + 1, i)), window)
        ELSE NaN]

TRMMovingAverage(f, v, ma, w) ==
    [fecha |-> f, valor |-> v, promedio_movil |-> ma, window |-> w]

\* the result rows built from the date-sorted frame df (lines 79-90)
MovingAverageRows(df, window) ==
    LET ma == RollingMean(Trm(df), window)
    IN  [i \in 1..Len(df) |->
            TRMMovingAverage(DateOf(df[i].fecha), df[i].trm,
                             IF ma[i] # NaN THEN ma[i] ELSE None, window)]

\* TRMService.calculate_moving_average raises what rolling() raises at line
\* 79, which the empty-list return of line 68 precedes; nothing catches it
calculate_moving_average_raises(items, window) ==
    items # <<>> /\ RollingRaises(window)

\* TRMService.calculate_moving_average: the results it can return when it
\* does not raise
calculate_moving_average(items, window) ==
    IF items = <<>>
    THEN {<<>>}
    ELSE {MovingAverageRows(df, window) : df \in SortValues(ToFrame(items))}

----------------------------------------------------------------------------
(* TRMService: extreme variations *)

\* PctChange measuring the first row against a previous value of 0
PctChangeFirstAgainstZero(vals) ==
    [i \in 1..Len(vals) |->
        LET q == Divide(vals[i], IF i = 1 THEN 0 ELSE vals[i - 1])
        IN  IF IsRat(q) THEN Rat((q.num - q.den) * 100, q.den) ELSE q]

\* df['trm'].pct_change() * 100: (value / previous value - 1) * 100, NaN for
\* the first row, which has no previous row
PctChange(vals) ==
    [i \in 1..Len(vals) |->
        IF i = 1
        THEN NaN
        ELSE LET q == Divide(vals[i], vals[i - 1])
             IN  IF IsRat(q) THEN Rat((q.num - q.den) * 100, q.den) ELSE q]

\* AbsGreater with >= in place of >
AbsGreaterOrEqual(x, t) ==
    IF x = NaN THEN FALSE
    ELSE IF x \in {PosInf, NegInf} THEN TRUE
    ELSE Abs(x.num) >= t * x.den

\* abs(x) > t on floats: False for NaN, True for an infinite x
AbsGreater(x, t) ==
    IF x = NaN THEN FALSE
    ELSE IF x \in {PosInf, NegInf} THEN TRUE
    ELSE Abs(x.num) > t * x.den

TRMVariation(f, v, pct) == [fecha |-> f, valor |-> v, variacion_pct |-> pct]

\* VariationRows listing the extreme rows latest first
VariationRowsLatestFirst(df, threshold_pct) ==
    LET pct == PctChange(Trm(df))
        rows == [i \in 1..Len(df) |->
                    [fecha |-> df[i].fecha, trm |-> df[i].trm, var_pct |-> pct[i]]]
        extreme_df == SelectSeq(rows, LAMBDA row : AbsGreater(row.var_pct, threshold_pct))
        kept == SelectSeq(extreme_df, LAMBDA row : row.var_pct # NaN)
    IN  [k \in 1..Len(kept) |->
            TRMVariation(DateOf(kept[Len(kept) + 1 - k].fecha),
                         kept[Len(kept) + 1 - k].trm, kept[Len(kept) + 1 - k].var_pct)]

\* the result built from the date-sorted frame df (lines 116-129): the rows
\* whose var_pct exceeds the threshold, in frame order, NaN rows skipped
VariationRows(df, threshold_pct) ==
    LET pct == PctChange(Trm(df))
        rows == [i \in 1..Len(df) |->
                    [fecha |-> df[i].fecha, trm |-> df[i].trm, var_pct |-> pct[i]]]
        extreme_df == SelectSeq(rows, LAMBDA row : AbsGreater(row.var_pct, threshold_pct))
        kept == SelectSeq(extreme_df, LAMBDA row : row.var_pct # NaN)
    IN  [k \in 1..Len(kept) |->
            TRMVariation(DateOf(kept[k].fecha), kept[k].trm, kept[k].var_pct)]

\* TRMService.find_extreme_variations: the results it can return
find_extreme_variations(items, threshold_pct) ==
    IF items = <<>>
    THEN {<<>>}
    ELSE {VariationRows(df, threshold_pct) : df \in SortValues(ToFrame(items))}

----------------------------------------------------------------------------
(* TRMService: plot annotations *)

\* IdxMin returning the last occurrence of the minimum
IdxMinLastOccurrence(vals) ==
    CHOOSE i \in 1..Len(vals) :
        /\ vals[i] = SeriesMin(vals)
        /\ \A j \in i + 1..Len(vals) : vals[j] # vals[i]

\* Series.idxmin(): the row of the first occurrence of the minimum
IdxMin(vals) ==
    CHOOSE i \in 1..Len(vals) :
        /\ vals[i] = SeriesMin(vals)
        /\ \A j \in 1..i - 1 : vals[j] # vals[i]

\* Series.idxmax(): the row of the first occurrence of the maximum
IdxMax(vals) ==
    CHOOSE i \in 1..Len(vals) :
        /\ vals[i] = SeriesMax(vals)
        /\ \A j \in 1..i - 1 : vals[j] # vals[i]

\* the Figure, as far as its data goes: the plotted line and the xy points
\* of the 'Min' and 'Max' annotations (lines 155-173)
Figure(df) ==
    [line |-> [i \in 1..Len(df) |-> <<df[i].fecha, df[i].trm>>],
     min_xy |-> <<df[IdxMin(Trm(df))].fecha, df[IdxMin(Trm(df))].trm>>,
     max_xy |-> <<df[IdxMax(Trm(df))].fecha, df[IdxMax(Trm(df))].trm>>]

\* TRMService.generate_plot: the figures it can return
generate_plot(items) ==
    IF items = <<>>
    THEN {None}
    ELSE {Figure(df) : df \in SortValues(ToFrame(items))}

----------------------------------------------------------------------------
(* Calls of the domain service on an arbitrary list of TRMData *)

Obs == {TRMData(date(d), v) : d \in Dates, v \in Values}

AllSeries == UNION {[1..n -> Obs] : n \in 0..MaxLen}

Windows == -1..MaxWindow

\* The service keeps no state between calls: a behaviour is one call of one of
\* its methods on the list `data` drawn by InitService.
CallCalculateStatistics ==
    /\ call.op = "init"
    /\ ret' \in calculate_statistics(data)
    /\ call' = [op |-> "calculate_statistics"]
    /\ raised' = None
    /\ UNCHANGED <<file, data_df, data>>

CallCalculateMovingAverage ==
    \E window \in Windows :
        /\ call.op = "init"
        /\ IF calculate_moving_average_raises(data, window)
           THEN ret' = None /\ raised' = ValueError
           ELSE ret' \in calculate_moving_average(data, window) /\ raised' = None
        /\ call' = [op |-> "calculate_moving_average", window |-> window]
        /\ UNCHANGED <<file, data_df, data>>

\* thresholds below, between and equal to the percent changes of Values
Thresholds == {0, 5, 10}

CallFindExtremeVariations ==
    \E threshold_pct \in Thresholds :
        /\ call.op = "init"
        /\ ret' \in find_extreme_variations(data, threshold_pct)
        /\ raised' = None
        /\ call' = [op |-> "find_extreme_variations", threshold_pct |-> threshold_pct]
        /\ UNCHANGED <<file, data_df, data>>

CallGeneratePlot ==
    /\ call.op = "init"
    /\ ret' \in generate_plot(data)
    /\ raised' = None
    /\ call' = [op |-> "generate_plot"]
    /\ UNCHANGED <<file, data_df, data>>

InitService ==
    /\ file = <<>>
    /\ data_df = None
    /\ data \in AllSeries
    /\ call = [op |-> "init"]
    /\ ret = None
    /\ raised = None

NextService ==
    \/ CallCalculateStatistics
    \/ CallCalculateMovingAverage
    \/ CallFindExtremeVariations
    \/ CallGeneratePlot

SpecService == InitService /\ [][NextService]_vars

----------------------------------------------------------------------------
(* Specification of the repository *)

Init ==
    /\ file \in Files
    /\ data_df = None
    /\ data = <<>>
    /\ call = [op |-> "init"]
    /\ ret = None
    /\ raised = None

Next ==
    \/ \E s, e \in OptDates : get_by_date_range(s, e)
    \/ filter_again

Spec == Init /\ [][Next]_vars

----------------------------------------------------------------------------
(* Date strings of a request *)

\* 'YYYY-MM-DD', 'YYYY/MM/DD' and a string that is no date at all
IsoStr(d) == [text |-> "iso", day |-> d]
SlashStr(d) == [text |-> "slash", day |-> d]
Garbage == [text |-> "garbage"]

\* the strings of a request: absent, no date, every day in the documented
\* format, and one day in the other format
DateStrs ==
    {None, Garbage, SlashStr(2)} \cup {IsoStr(d) : d \in Dates}

\* date.fromisoformat(s) raises ValueError unless s is 'YYYY-MM-DD'
fromisoformat_raises(s) == s.text # "iso"
fromisoformat(s) == date(s.day)

\* pd.to_datetime(s) parses both date formats and raises on a non-date
pd_to_datetime_raises(s) == s.text \notin {"iso", "slash"}
pd_to_datetime(s) == [day |-> s.day, time |-> 0]

----------------------------------------------------------------------------
(* TRMDataLoader (python_app/trm_app.py): a frame kept in self.data *)

\* a frame of the loader is a sequence of rows [fecha, trm]; an added column
\* is a further field of every row
AddColumn(df, name, col) ==
    [i \in 1..Len(df) |->
        [f \in DOMAIN df[i] \cup {name} |-> IF f = name THEN col[i] ELSE df[i][f]]]

\* the two filters of get_data_range: a bound is applied if it is given and
\* parses, and skipped (except: pass) if it does not parse
LoaderFilter(df, start_date, end_date) ==
    LET afterStart ==
            IF start_date # None /\ ~pd_to_datetime_raises(start_date)
            THEN SelectSeq(df, LAMBDA row : TsLE(pd_to_datetime(start_date), row.fecha))
            ELSE df
    IN  IF end_date # None /\ ~pd_to_datetime_raises(end_date)
        THEN SelectSeq(afterStart, LAMBDA row : TsLE(row.fecha, pd_to_datetime(end_date)))
        ELSE afterStart

\* LoaderGetDataRange without the .copy(): unless a filter has built a new
\* frame, the frame returned is self.data itself
LoaderGetDataRangeNoCopy(stored, start_date, end_date) ==
    IF stored = None
    THEN None
    ELSE [frame |-> LoaderFilter(stored.rows, start_date, end_date),
          is_self_data |->
              /\ start_date # None => pd_to_datetime_raises(start_date)
              /\ end_date # None => pd_to_datetime_raises(end_date)]

\* TRMDataLoader.get_data_range on the stored frame: None without data,
\* otherwise a filtered copy, which never is the object self.data.  On a raw
\* frame (load_data failed after read_csv) each filter raises inside its try
\* and is skipped, so the copy of the raw frame is returned
LoaderGetDataRange(stored, start_date, end_date) ==
    IF stored = None
    THEN None
    ELSE IF IsRaw(stored)
    THEN [frame |-> stored.raw, is_self_data |-> FALSE]
    ELSE [frame |-> LoaderFilter(stored.rows, start_date, end_date),
          is_self_data |-> FALSE]

\* what self.data is after a column was assigned to the frame `filtered`
StoredAfterAssign(stored, filtered, name, col) ==
    IF filtered.is_self_data
    THEN [rows |-> AddColumn(filtered.frame, name, col)]
    ELSE stored

\* the dict of TRMDataLoader.get_statistics
LoaderStatistics(df) ==
    LET vals == Trm(df)
        days == {df[i].fecha.day : i \in 1..Len(df)}
    IN  [min |-> SeriesMin(vals), max |-> SeriesMax(vals), avg |-> SeriesMean(vals),
         median |-> SeriesMedian(vals), std |-> SeriesStd(vals), count |-> Len(df),
         start_date |-> CHOOSE d \in days : \A e \in days : d <= e,
         end_date |-> CHOOSE d \in days : \A e \in days : e <= d,
         start_value |-> df[1].trm, end_value |-> df[Len(df)].trm,
         change |-> Change(df[1].trm, df[Len(df)].trm),
         change_pct |-> ChangePct(df[1].trm, df[Len(df)].trm)]

\* the (start_date, end_date) handed to the loader's analytic calls
LoaderBounds ==
    {<<None, None>>, <<None, Garbage>>, <<IsoStr(2), None>>, <<None, IsoStr(2)>>}

\* a loader whose load_data succeeded and that has not been called yet: the
\* analytic calls below read self.data only, so a behaviour is one call
Loaded == data_df # None /\ call.op = "TRMDataLoader"

LoaderGetStatistics ==
    \E bounds \in LoaderBounds :
        /\ Loaded
        /\ LET filtered == LoaderGetDataRange(data_df, bounds[1], bounds[2])
           IN  ret' = IF filtered.frame = <<>> THEN None
                      ELSE LoaderStatistics(filtered.frame)
        /\ raised' = None
        /\ call' = [op |-> "loader", method |-> "get_statistics",
                    start_date |-> bounds[1], end_date |-> bounds[2]]
        /\ UNCHANGED <<file, data_df, data>>

LoaderCalculateMovingAverage ==
    \E window \in Windows, bounds \in LoaderBounds :
        /\ Loaded
        /\ LET filtered == LoaderGetDataRange(data_df, bounds[1], bounds[2])
               col == RollingMean(Trm(filtered.frame), window)
           IN  IF filtered.frame = <<>>
               THEN ret' = None /\ raised' = None /\ data_df' = data_df
               ELSE IF RollingRaises(window)
               THEN ret' = None /\ raised' = ValueError /\ data_df' = data_df
               ELSE /\ ret' = AddColumn(filtered.frame, "ma", col)
                    /\ raised' = None
                    /\ data_df' = StoredAfterAssign(data_df, filtered, "ma", col)
        /\ call' = [op |-> "loader", method |-> "calculate_moving_average",
                    window |-> window, start_date |-> bounds[1], end_date |-> bounds[2]]
        /\ UNCHANGED <<file, data>>

LoaderFindExtremeVariations ==
    \E threshold_pct \in Thresholds, bounds \in LoaderBounds :
        /\ Loaded
        /\ LET filtered == LoaderGetDataRange(data_df, bounds[1], bounds[2])
               col == PctChange(Trm(filtered.frame))
           IN  IF filtered.frame = <<>>
               THEN ret' = None /\ data_df' = data_df
               ELSE /\ ret' = SelectSeq(AddColumn(filtered.frame, "var_pct", col),
                                        LAMBDA row : AbsGreater(row.var_pct, threshold_pct))
                    /\ data_df' = StoredAfterAssign(data_df, filtered, "var_pct", col)
        /\ raised' = None
        /\ call' = [op |-> "loader", method |-> "find_extreme_variations",
                    threshold_pct |-> threshold_pct,
                    start_date |-> bounds[1], end_date |-> bounds[2]]
        /\ UNCHANGED <<file, data>>

\* TRMDataLoader(data_path) on a file that loads: __init__ has run load_data
InitLoader ==
    /\ file \in Files
    /\ data_df \in {[rows |-> df] : df \in load_data(file)}
    /\ data = <<>>
    /\ call = [op |-> "TRMDataLoader"]
    /\ ret = None
    /\ raised = None

\* the analytic calls: of the domain service on a list, of the loader on its
\* stored frame
InitAnalytics == InitService \/ InitLoader

NextAnalytics ==
    \/ CallCalculateStatistics
    \/ CallCalculateMovingAverage
    \/ CallFindExtremeVariations
    \/ CallGeneratePlot
    \/ LoaderGetStatistics
    \/ LoaderCalculateMovingAverage
    \/ LoaderFindExtremeVariations

SpecAnalytics == InitAnalytics /\ [][NextAnalytics]_vars

----------------------------------------------------------------------------
(* Requests for a date range, with the bounds given as strings *)

\* src TRMApplicationService.get_trm_data, lines 41-42: date.fromisoformat
\* of each given string, outside any try
AppDatesRaise(start_date, end_date) ==
    \/ start_date # None /\ fromisoformat_raises(start_date)
    \/ end_date # None /\ fromisoformat_raises(end_date)

AppDate(str) == IF str = None THEN None ELSE fromisoformat(str)

\* PyAppDates falling back bound by bound: a bound that does not parse is
\* None, the other bound is kept
PyAppDatesPerBound(start_date, end_date) ==
    LET one(str) == IF str = None \/ pd_to_datetime_raises(str)
                    THEN None ELSE DateOf(pd_to_datetime(str))
    IN  <<one(start_date), one(end_date)>>

\* python_app TRMApplicationService.get_trm_data, lines 45-63: both strings
\* by date.fromisoformat; on ValueError both again by pd.to_datetime; if
\* that raises, both bounds are None
PyAppDates(start_date, end_date) ==
    IF ~AppDatesRaise(start_date, end_date)
    THEN <<AppDate(start_date), AppDate(end_date)>>
    ELSE IF \/ start_date # None /\ pd_to_datetime_raises(start_date)
            \/ end_date # None /\ pd_to_datetime_raises(end_date)
    THEN <<None, None>>
    ELSE <<IF start_date = None THEN None ELSE DateOf(pd_to_datetime(start_date)),
           IF end_date = None THEN None ELSE DateOf(pd_to_datetime(end_date))>>

\* [item.to_dict() for item in data]
ToDicts(items) == [k \in 1..Len(items) |-> to_dict(items[k])]

\* src TRMApplicationService.get_trm_data
AppGetTrmData ==
    \E start_date, end_date \in DateStrs :
        /\ call.op = "init"
        /\ IF AppDatesRaise(start_date, end_date)
           THEN ret' = None /\ raised' = ValueError /\ data_df' = data_df
           ELSE \E out \in RepositoryGetByDateRange(data_df, file,
                                AppDate(start_date), AppDate(end_date)) :
                    /\ data_df' = out.data_df
                    /\ raised' = out.raised
                    /\ ret' = IF out.raised = None THEN ToDicts(out.ret) ELSE None
        /\ call' = [op |-> "get_trm_data", impl |-> "src",
                    start_date |-> start_date, end_date |-> end_date]
        /\ UNCHANGED <<file, data>>

\* python_app TRMApplicationService.get_trm_data
PyAppGetTrmData ==
    \E start_date, end_date \in DateStrs :
        /\ call.op = "init"
        /\ \E out \in RepositoryGetByDateRange(data_df, file,
                           PyAppDates(start_date, end_date)[1],
                           PyAppDates(start_date, end_date)[2]) :
               /\ data_df' = out.data_df
               /\ raised' = out.raised
               /\ ret' = IF out.raised = None THEN ToDicts(out.ret) ELSE None
        /\ call' = [op |-> "get_trm_data", impl |-> "python_app",
                    start_date |-> start_date, end_date |-> end_date]
        /\ UNCHANGED <<file, data>>

\* TRMDataLoader.get_data_range of python_app/trm_app.py, called
CallLoaderGetDataRange ==
    \E start_date, end_date \in DateStrs :
        /\ Loaded
        /\ ret' = LoaderGetDataRange(data_df, start_date, end_date).frame
        /\ raised' = None
        /\ call' = [op |-> "get_data_range", impl |-> "trm_app",
                    start_date |-> start_date, end_date |-> end_date]
        /\ UNCHANGED <<file, data_df, data>>

\* TRMDataLoader.get_data_range of trm_data_loader.py: pd.to_datetime of each
\* given bound outside any try
LegacyDatesRaise(start_date, end_date) ==
    \/ start_date # None /\ pd_to_datetime_raises(start_date)
    \/ end_date # None /\ pd_to_datetime_raises(end_date)

LegacyFilter(df, start_date, end_date) ==
    LET afterStart ==
            IF start_date # None
            THEN SelectSeq(df, LAMBDA row : TsLE(pd_to_datetime(start_date), row.fecha))
            ELSE df
    IN  IF end_date # None
        THEN SelectSeq(afterStart, LAMBDA row : TsLE(row.fecha, pd_to_datetime(end_date)))
        ELSE afterStart

CallLegacyGetDataRange ==
    \E start_date, end_date \in DateStrs :
        /\ Loaded
        /\ IF LegacyDatesRaise(start_date, end_date)
           THEN ret' = None /\ raised' = ValueError
           ELSE ret' = LegacyFilter(data_df.rows, start_date, end_date) /\ raised' = None
        /\ call' = [op |-> "get_data_range", impl |-> "trm_data_loader",
                    start_date |-> start_date, end_date |-> end_date]
        /\ UNCHANGED <<file, data_df, data>>

\* a request is made of an application service over a fresh repository, or of
\* a loader that has loaded its file
InitRequests == Init \/ InitLoader

NextRequests ==
    \/ AppGetTrmData
    \/ PyAppGetTrmData
    \/ CallLoaderGetDataRange
    \/ CallLegacyGetDataRange

SpecRequests == InitRequests /\ [][NextRequests]_vars

----------------------------------------------------------------------------
(* Queries over a file that does not load *)

\* pandas' NaT, the minimum of an empty datetime column
NaT == [special |-> "nat"]

\* TRMRepository.get_all
get_all ==
    /\ \E l \in LazyLoad(data_df, file) :
          /\ data_df' = l.cache
          /\ IF ~l.ok THEN ret' = <<>> /\ raised' = None
             ELSE IF IsRaw(l.cache) /\ l.cache.raw = <<>> THEN ret' = <<>> /\ raised' = None
             ELSE IF IsRaw(l.cache) THEN ret' = None /\ raised' = AttributeError
             ELSE ret' = ToTRMData(l.cache.rows) /\ raised' = None
    /\ call' = [op |-> "get_all"]
    /\ UNCHANGED <<file, data>>

\* Series.min() / Series.max() of a non-empty fecha column
FechaMin(rows) ==
    CHOOSE ts \in {rows[i].fecha : i \in 1..Len(rows)} :
        \A i \in 1..Len(rows) : TsLE(ts, rows[i].fecha)

FechaMax(rows) ==
    CHOOSE ts \in {rows[i].fecha : i \in 1..Len(rows)} :
        \A i \in 1..Len(rows) : TsLE(rows[i].fecha, ts)

\* TRMRepository.get_date_range; date.today() is some day
get_date_range ==
    /\ \E l \in LazyLoad(data_df, file) :
          /\ data_df' = l.cache
          /\ IF ~l.ok
             THEN (\E today \in Dates : ret' = <<date(today), date(today)>>) /\ raised' = None
             ELSE IF IsRaw(l.cache) THEN ret' = None /\ raised' = AttributeError
             ELSE IF l.cache.rows = <<>> THEN ret' = <<NaT, NaT>> /\ raised' = None
             ELSE /\ ret' = <<DateOf(FechaMin(l.cache.rows)),
                              DateOf(FechaMax(l.cache.rows))>>
                  /\ raised' = None
    /\ call' = [op |-> "get_date_range"]
    /\ UNCHANGED <<file, data>>

\* the object queried is a TRMRepository (not a TRMDataLoader)
IsRepository == call.op \in {"init", "get_all", "get_by_date_range", "get_date_range"}

\* a TRMRepository, or a TRMDataLoader just constructed, over a file whose
\* date column does not parse
InitLoad ==
    /\ file \in DamagedFiles
    /\ \/ data_df = None /\ call = [op |-> "init"]
       \/ data_df \in {l.cache : l \in _load_data(file)} /\ call = [op |-> "TRMDataLoader"]
    /\ data = <<>>
    /\ ret = None
    /\ raised = None

NextLoad ==
    \/ IsRepository /\ get_all
    \/ IsRepository /\ \E s, e \in OptDates : get_by_date_range(s, e)
    \/ IsRepository /\ get_date_range
    \/ CallLoaderGetDataRange

SpecLoad == InitLoad /\ [][NextLoad]_vars

----------------------------------------------------------------------------
(* Claims about the range filter *)

\* date d lies within the optional bounds, both inclusive
InBounds(d, start_date, end_date) ==
    /\ start_date # None => start_date.day <= d
    /\ end_date # None => d <= end_date.day

\* C1: get_by_date_range returns exactly the stored observations whose date
\* lies within the given bounds (both inclusive, an absent bound not
\* restricting), in the order of the stored series: the k-th returned item is
\* the k-th in-range row, nothing in range is omitted, nothing out of range is
\* returned, and the returned (date, value) pairs are those of the file.
C1_RangeFilterExact ==
    call.op = "get_by_date_range" =>
        LET rows == data_df.rows
            inRange == {i \in 1..Len(rows) :
                           InBounds(rows[i].fecha.day, call.start_date, call.end_date)}
        IN  /\ Len(ret) = Cardinality(inRange)
            /\ \A k \in 1..Len(ret) :
                   \E i \in inRange :
                       /\ Cardinality({j \in inRange : j <= i}) = k
                       /\ ret[k].fecha = date(rows[i].fecha.day)
                       /\ ret[k].valor = rows[i].trm
            /\ {<<ret[k].fecha.day, ret[k].valor>> : k \in 1..Len(ret)}
                   = {file[i] : i \in {n \in 1..Len(file) :
                          InBounds(file[n][1], call.start_date, call.end_date)}}
            /\ (call.start_date # None /\ call.end_date # None
                    /\ call.start_date.day > call.end_date.day) => ret = <<>>

\* a query with both bounds given that keeps an inner part of the file: rows
\* before the start and after the end are left out, the row on the bound kept
C1_Witness ==
    /\ call.op = "get_by_date_range"
    /\ call.start_date # None /\ call.end_date # None
    /\ Len(ret) = 1
    /\ ret[1].fecha = call.start_date /\ ret[1].fecha = call.end_date
    /\ Len(file) = MaxLen
    /\ file[1][1] > file[2][1]
    /\ \E i, j \in 1..Len(file) :
           file[i][1] < call.start_date.day /\ call.end_date.day < file[j][1]

\* C2: filtering the result of a range query again with the same bounds
\* returns the same sequence.
C2_FilterIdempotent ==
    call.op = "filter_again" => ret = call.first

\* a second filtering of a non-empty result that left rows of the file out
C2_Witness ==
    /\ call.op = "filter_again"
    /\ call.start_date # None
    /\ call.first # <<>>
    /\ ret = call.first
    /\ Len(call.first) < Len(file)

----------------------------------------------------------------------------
(* Claims about calculate_statistics *)

StatisticsFields ==
    {"min_value", "max_value", "avg_value", "median_value", "std_dev", "count",
     "start_date", "end_date", "start_value", "end_value", "change", "change_pct"}

ValuesOf(items) == {items[i].valor : i \in 1..Len(items)}

DaysOf(items) == {items[i].fecha.day : i \in 1..Len(items)}

UniqueDates(items) ==
    \A i, j \in 1..Len(items) : items[i].fecha = items[j].fecha => i = j

\* the indices of the observations with the earliest / the latest date
Earliest(items) == {i \in 1..Len(items) : \A d \in DaysOf(items) : items[i].fecha.day <= d}
Latest(items) == {i \in 1..Len(items) : \A d \in DaysOf(items) : d <= items[i].fecha.day}

\* C3: calculate_statistics returns None exactly when the input list is
\* empty, and for every non-empty list a record with all twelve statistics
\* fields set.
C3_StatisticsAbsentIffEmpty ==
    call.op = "calculate_statistics" =>
        /\ (ret = None) <=> (data = <<>>)
        /\ data # <<>> =>
              /\ DOMAIN ret = StatisticsFields
              /\ \A f \in {"min_value", "max_value", "count", "start_value",
                            "end_value", "change"} : ret[f] \in Int
              /\ \A f \in {"avg_value", "median_value", "std_dev", "start_date",
                            "end_date", "change_pct"} : ret[f] # None

\* statistics of a list of one observation: the smallest non-empty input
C3_Witness ==
    /\ call.op = "calculate_statistics"
    /\ Len(data) = 1
    /\ ret # None
    /\ ret.count = 1

C5_StartEndByDateOrder ==
    (call.op = "calculate_statistics" /\ data # <<>> /\ UniqueDates(data)) =>
        /\ \E i \in Earliest(data) :
               ret.start_value = data[i].valor /\ ret.start_date = data[i].fecha
        /\ \E i \in Latest(data) :
               ret.end_value = data[i].valor /\ ret.end_date = data[i].fecha

\* an input given out of date order whose start value is neither the minimum
\* nor the maximum value, whose end value is not the maximum, and whose start
\* and end values are not those of the first and last input items
C5_Witness ==
    /\ call.op = "calculate_statistics"
    /\ Len(data) = MaxLen
    /\ UniqueDates(data)
    /\ 1 \notin Earliest(data) /\ Len(data) \notin Latest(data)
    /\ ret.start_value # data[1].valor /\ ret.end_value # data[Len(data)].valor
    /\ ret.start_value \notin {ret.min_value, ret.max_value}
    /\ ret.end_value # ret.max_value

\* the example series of the specification: (2024-01-01, 100),
\* (2024-01-02, 110), (2024-01-03, 99), three consecutive days
ExampleSeries ==
    <<TRMData(date(1), 100), TRMData(date(2), 110), TRMData(date(3), 99)>>

\* C6: for a non-empty series, change is end value minus start value and
\* change_pct is (end value / start value - 1) * 100 (the float value of
\* that expression when the start value is 0); the example series gives
\* min 99, max 110, mean 103, start 100, end 99, change -1, change_pct -1.
C6_ChangeAndPercentChange ==
    (call.op = "calculate_statistics" /\ data # <<>>) =>
        /\ ret.change = ret.end_value - ret.start_value
        /\ ret.start_value # 0 =>
              /\ IsRat(ret.change_pct)
              /\ ret.change_pct.num * ret.start_value
                     = 100 * (ret.end_value - ret.start_value) * ret.change_pct.den
        /\ ret.start_value = 0 =>
              ret.change_pct = IF ret.end_value > 0 THEN PosInf
                               ELSE IF ret.end_value < 0 THEN NegInf ELSE NaN
        /\ data = ExampleSeries =>
              /\ ret.min_value = 99 /\ ret.max_value = 110
              /\ ret.avg_value = [num |-> 103, den |-> 1]
              /\ ret.start_value = 100 /\ ret.end_value = 99
              /\ ret.change = -1
              /\ ret.change_pct = [num |-> -1, den |-> 1]

\* the statistics of the example series
C6_Witness ==
    /\ call.op = "calculate_statistics"
    /\ data = ExampleSeries
    /\ ret.change = -1
    /\ ret.change_pct = [num |-> -1, den |-> 1]

\* C7 as stated: for a series of a single observation, statistics is defined
\* with count 1, std_dev NaN, change 0 and change_pct 0.
C7_SinglePointAsStated ==
    (call.op = "calculate_statistics" /\ Len(data) = 1) =>
        /\ ret # None
        /\ ret.count = 1
        /\ ret.std_dev = NaN
        /\ ret.change = 0
        /\ ret.change_pct = [num |-> 0, den |-> 1]

\* C7 (amended): for a series of a single observation, statistics is defined
\* with count 1, std_dev NaN (never 0) and change 0; change_pct is 0 when the
\* value of the observation is not 0, and NaN (0/0) when it is 0.
C7_SinglePointStatistics ==
    (call.op = "calculate_statistics" /\ Len(data) = 1) =>
        /\ ret # None
        /\ ret.count = 1
        /\ ret.std_dev = NaN
        /\ ret.change = 0
        /\ data[1].valor # 0 => ret.change_pct = [num |-> 0, den |-> 1]
        /\ data[1].valor = 0 => ret.change_pct = NaN

\* the statistics of a single observation of value 0
C7_Witness ==
    /\ call.op = "calculate_statistics"
    /\ Len(data) = 1
    /\ data[1].valor = 0
    /\ ret.std_dev = NaN
    /\ ret.change_pct = NaN

\* C8: when the start value (the value at the earliest date) is 0,
\* calculate_statistics still returns a statistics record; its change_pct is
\* inf, -inf or NaN (by the sign of the end value) and the other fields are
\* computed as usual.
C8_ZeroStartValue ==
    (call.op = "calculate_statistics" /\ data # <<>>
        /\ \A i \in Earliest(data) : data[i].valor = 0) =>
        /\ DOMAIN ret = StatisticsFields
        /\ ret.start_value = 0
        /\ ret.change_pct \in {PosInf, NegInf, NaN}
        /\ ret.change_pct = IF ret.end_value > 0 THEN PosInf
                            ELSE IF ret.end_value < 0 THEN NegInf ELSE NaN
        /\ ret.count = Len(data)
        /\ ret.change = ret.end_value
        /\ \E i \in Latest(data) : ret.end_value = data[i].valor
        /\ ret.min_value \in ValuesOf(data) /\ ret.max_value \in ValuesOf(data)
        /\ \A v \in ValuesOf(data) : ret.min_value <= v /\ v <= ret.max_value
        /\ ret.avg_value.num * Len(data)
               = ret.avg_value.den * SumSeq([i \in 1..Len(data) |-> data[i].valor])
        /\ ret.std_dev = NaN <=> Len(data) = 1

\* statistics of a series that starts at 0 and ends above 0
C8_Witness ==
    /\ call.op = "calculate_statistics"
    /\ Len(data) = MaxLen
    /\ UniqueDates(data)
    /\ ret.start_value = 0
    /\ ret.end_value > 0
    /\ ret.change_pct = PosInf
    /\ ret.avg_value # NaN

----------------------------------------------------------------------------
(* Claims about calculate_moving_average *)

\* the sum of vals[lo..hi]
RECURSIVE RangeSum(_, _, _)
RangeSum(vals, lo, hi) ==
    IF lo > hi THEN 0 ELSE vals[lo] + RangeSum(vals, lo + 1, hi)

\* C9: for a window w >= 1 the result has one point per observation, and the
\* moving average of the point at 0-based index i is defined exactly when
\* i >= w - 1 (never when w exceeds the length); for w = 1 it equals the
\* point's own value.
C9_MovingAverageDefinedFromWindow ==
    (call.op = "calculate_moving_average" /\ call.window >= 1) =>
        /\ Len(ret) = Len(data)
        /\ \A k \in 1..Len(ret) :
               (ret[k].promedio_movil # None) <=> (k - 1 >= call.window - 1)
        /\ call.window = 1 =>
               \A k \in 1..Len(ret) : ret[k].promedio_movil = [num |-> ret[k].valor, den |-> 1]

\* a window as long as the series: only the last point has a moving average
C9_Witness ==
    /\ call.op = "calculate_moving_average"
    /\ call.window = MaxLen
    /\ Len(ret) = MaxLen
    /\ ret[MaxLen].promedio_movil # None
    /\ \A k \in 1..MaxLen - 1 : ret[k].promedio_movil = None

\* C10: the result is in ascending date order and holds the observations of
\* the input; a defined moving average at row i is the arithmetic mean of the
\* values of rows i-w+1..i, whatever the dates of those rows; the example
\* series with w = 2 gives [absent, 105, 104.5].
C10_MovingAverageIsRowMean ==
    (call.op = "calculate_moving_average" /\ call.window >= 1) =>
        /\ \A k \in 1..Len(ret) - 1 : ret[k].fecha.day <= ret[k + 1].fecha.day
        /\ {<<ret[k].fecha, ret[k].valor>> : k \in 1..Len(ret)}
               = {<<data[i].fecha, data[i].valor>> : i \in 1..Len(data)}
        /\ \A k \in 1..Len(ret) :
               ret[k].promedio_movil # None =>
                   ret[k].promedio_movil.num * call.window
                       = ret[k].promedio_movil.den
                             * RangeSum([i \in 1..Len(ret) |-> ret[i].valor],
                                        k - call.window + 1, k)
        /\ (data = ExampleSeries /\ call.window = 2) =>
               [k \in 1..Len(ret) |-> ret[k].promedio_movil]
                   = <<None, [num |-> 105, den |-> 1], [num |-> 209, den |-> 2]>>

\* two observations two days apart, given latest first, window 2: the second
\* point's moving average is the mean of both rows
C10_Witness ==
    /\ call.op = "calculate_moving_average"
    /\ call.window = 2
    /\ Len(data) = 2
    /\ data[1].fecha = date(MaxDate) /\ data[2].fecha = date(1)
    /\ data[1].valor = 110 /\ data[2].valor = 100
    /\ ret[2].promedio_movil = [num |-> 105, den |-> 1]

----------------------------------------------------------------------------
(* Claims about invalid windows and the shape of the moving-average result *)

\* C11: for every non-empty series and every window w <= 0,
\* calculate_moving_average does not fail: no exception escapes, and it
\* returns one point per observation, each with its moving average absent.
C11_NonPositiveWindowAllAbsent ==
    (call.op = "calculate_moving_average" /\ data # <<>> /\ call.window <= 0) =>
        /\ raised = None
        /\ Len(ret) = Len(data)
        /\ \A k \in 1..Len(ret) : ret[k].promedio_movil = None

\* the observations of a list or of a result, as a bag: how often each
\* (date, value) pair occurs in rows[1..n]
PairCount(rows, f, v) ==
    Cardinality({i \in 1..Len(rows) : rows[i].fecha = f /\ rows[i].valor = v})

\* C12: calculate_moving_average returns exactly one point per input
\* observation, in ascending date order, each point carrying the date and the
\* value of its observation; for an empty list it returns the empty sequence,
\* and no call ends with an exception.
C12_OnePointPerObservation ==
    call.op = "calculate_moving_average" =>
        /\ raised = None
        /\ Len(ret) = Len(data)
        /\ \A k \in 1..Len(ret) - 1 : ret[k].fecha.day <= ret[k + 1].fecha.day
        /\ \A i \in 1..Len(data) :
               PairCount(ret, data[i].fecha, data[i].valor)
                   = PairCount(data, data[i].fecha, data[i].valor)

----------------------------------------------------------------------------
(* Claims about extreme variations *)

\* the list is in strictly ascending date order
DateSorted(items) ==
    \A i \in 1..Len(items) - 1 : items[i].fecha.day < items[i + 1].fecha.day

\* |(cur / prev - 1) * 100| > t in float semantics, for values >= 0: a
\* division of a positive value by 0 is infinite, 0 / 0 is NaN
ExceedsThreshold(prev, cur, t) ==
    IF prev = 0
    THEN cur # 0
    ELSE Abs(cur - prev) * 100 > t * Abs(prev)

\* (cur / prev - 1) * 100 where ExceedsThreshold holds
PercentChangeOf(prev, cur) ==
    IF prev = 0 THEN PosInf ELSE Rat((cur - prev) * 100, prev)

Adjacent(items) ==
    {<<i, j>> \in (1..Len(items)) \X (1..Len(items)) :
        /\ items[i].fecha.day < items[j].fecha.day
        /\ \A k \in 1..Len(items) :
               ~(items[i].fecha.day < items[k].fecha.day
                 /\ items[k].fecha.day < items[j].fecha.day)}

\* C14: the first observation (earliest date) of a list is never returned as
\* a variation record, a result has at most len - 1 records, on a list with
\* no two date-adjacent values equal threshold 0 returns exactly len - 1
\* records, and the empty list gives the empty sequence.
C14_FirstExcludedAllOthersAtZero ==
    call.op = "find_extreme_variations" =>
        /\ data = <<>> => ret = <<>>
        /\ data # <<>> => Len(ret) <= Len(data) - 1
        /\ UniqueDates(data) =>
               /\ \A k \in 1..Len(ret) : \A i \in Earliest(data) :
                      ret[k].fecha # data[i].fecha
               /\ (/\ call.threshold_pct = 0
                   /\ data # <<>>
                   /\ \A p \in Adjacent(data) : data[p[1]].valor # data[p[2]].valor)
                      => /\ Len(ret) = Len(data) - 1
                         /\ {ret[k].fecha : k \in 1..Len(ret)}
                                = {data[i].fecha : i \in 1..Len(data) \ Earliest(data)}

\* threshold 0 on three observations given out of date order, one change
\* being from a value of 0 (infinite): both later observations are returned
C14_Witness ==
    /\ call.op = "find_extreme_variations"
    /\ call.threshold_pct = 0
    /\ Len(data) = MaxLen
    /\ UniqueDates(data)
    /\ ~DateSorted(data)
    /\ Len(ret) = MaxLen - 1
    /\ \E k \in 1..Len(ret) : ret[k].variacion_pct = PosInf

\* C15: the records are in chronological order: non-descending by date for
\* every input, strictly ascending when the dates of the input are unique,
\* whatever the order of the input list and the magnitudes of the changes.
C15_ChronologicalOrder ==
    call.op = "find_extreme_variations" =>
        /\ \A k \in 1..Len(ret) - 1 : ret[k].fecha.day <= ret[k + 1].fecha.day
        /\ UniqueDates(data) =>
               \A k \in 1..Len(ret) - 1 : ret[k].fecha.day < ret[k + 1].fecha.day

\* a list given latest first whose later change is the larger one: the
\* smaller, earlier change is still listed first
C15_Witness ==
    /\ call.op = "find_extreme_variations"
    /\ Len(data) = MaxLen
    /\ \A i \in 1..Len(data) - 1 : data[i].fecha.day > data[i + 1].fecha.day
    /\ Len(ret) = 2
    /\ IsRat(ret[1].variacion_pct) /\ IsRat(ret[2].variacion_pct)
    /\ ~AbsGreater(ret[1].variacion_pct, 5)
    /\ AbsGreater(ret[2].variacion_pct, 5)

----------------------------------------------------------------------------
(* Claims about the plot annotations *)

\* C20: for every non-empty list, in any order, the annotated minimum
\* (maximum) is the observation with the smallest (largest) value, and among
\* several observations with that value the one with the earliest date.
C20_AnnotationsFirstOccurrence ==
    (call.op = "generate_plot" /\ data # <<>>) =>
        LET lowest == {i \in 1..Len(data) : \A v \in ValuesOf(data) : data[i].valor <= v}
            highest == {i \in 1..Len(data) : \A v \in ValuesOf(data) : v <= data[i].valor}
        IN  /\ \E i \in lowest :
                   /\ ret.min_xy = <<Timestamp(data[i].fecha), data[i].valor>>
                   /\ \A j \in lowest : data[i].fecha.day <= data[j].fecha.day
            /\ \E i \in highest :
                   /\ ret.max_xy = <<Timestamp(data[i].fecha), data[i].valor>>
                   /\ \A j \in highest : data[i].fecha.day <= data[j].fecha.day

\* the smallest value occurs on the first and on the last day, the largest on
\* the day between, and the list is given latest first: the first day's
\* observation is the annotated minimum
C20_Witness ==
    /\ call.op = "generate_plot"
    /\ data = <<TRMData(date(3), 99), TRMData(date(2), 110), TRMData(date(1), 99)>>
    /\ ret.min_xy = <<Timestamp(date(1)), 99>>
    /\ ret.max_xy = <<Timestamp(date(2)), 110>>

----------------------------------------------------------------------------
(* Claims about inputs left alone *)

\* C16: no analytic call changes its input: a call of the service leaves the
\* list it was given as it was, and a call of the loader leaves the stored
\* data with the same rows in the same order and the same columns.
C16_InputsNotMutated ==
    [][data' = data /\ data_df' = data_df]_vars

\* the loader has computed a moving average on all of its stored data (no
\* bound applied): the frame returned has the new column, the stored frame
\* still has only fecha and trm
C16_Witness ==
    /\ call.op = "loader"
    /\ call.method = "calculate_moving_average"
    /\ call.window = 2
    /\ call.start_date = None /\ call.end_date = Garbage
    /\ Len(data_df.rows) = MaxLen
    /\ Len(ret) = MaxLen
    /\ \A i \in 1..MaxLen : DOMAIN ret[i] = {"fecha", "trm", "ma"}
    /\ \A i \in 1..MaxLen : DOMAIN data_df.rows[i] = {"fecha", "trm"}

----------------------------------------------------------------------------
(* Claims about date strings that do not parse *)

IsRequest == call.op \in {"get_trm_data", "get_data_range"}

\* the days of the observations a request returned, in the order returned
RetDays ==
    IF call.op = "get_trm_data"
    THEN [k \in 1..Len(ret) |-> ret[k].fecha]
    ELSE [k \in 1..Len(ret) |-> ret[k].fecha.day]

\* the date a well-formed ('YYYY-MM-DD') bound stands for; a bound that is
\* not given or is no date restricts nothing
BoundOf(str) == IF str \in {None, Garbage} THEN None ELSE date(str.day)

\* the days stored in the file that lie within the bounds, ascending
DaysInBounds(start_date, end_date) ==
    {file[i][1] : i \in {j \in 1..Len(file) :
                             InBounds(file[j][1], start_date, end_date)}}

\* C17: a request one of whose bounds is no date, the other being absent or
\* a 'YYYY-MM-DD' date, does not fail, and returns exactly the stored
\* observations within the well-formed bound, the bad bound restricting
\* nothing.
C17_UnparseableBoundIgnored ==
    (/\ IsRequest
     /\ call.impl \in {"src", "python_app", "trm_app"}
     /\ Garbage \in {call.start_date, call.end_date}
     /\ {call.start_date, call.end_date} \subseteq {None, Garbage} \cup {IsoStr(d) : d \in Dates})
        => /\ raised = None
           /\ Len(RetDays) = Cardinality(DaysInBounds(BoundOf(call.start_date),
                                                      BoundOf(call.end_date)))
           /\ {RetDays[k] : k \in 1..Len(RetDays)}
                  = DaysInBounds(BoundOf(call.start_date), BoundOf(call.end_date))

----------------------------------------------------------------------------
(* Claims about a failed load *)

\* C19: over a file that fails to load, after any sequence of calls: the
\* last call did not end with an exception; get_all and get_by_date_range
\* returned the empty list and get_date_range the fallback pair (twice the
\* same day); the loader's get_data_range served no frame; and no frame is
\* left cached.
C19_LoadFailureOnlyInReturnValues ==
    ((\E i \in 1..Len(file) : file[i][1] = BadDateStr) /\ (IsRequest \/ IsRepository)
        /\ call.op # "init") =>
        /\ raised = None
        /\ call.op \in {"get_all", "get_by_date_range"} => ret = <<>>
        /\ call.op = "get_date_range" => ret[1] = ret[2]
        /\ call.op = "get_data_range" => ret = <<>>
        /\ data_df = None

----------------------------------------------------------------------------
(* TRMRepository.save and the data updater *)

\* Series.dt.strftime('%Y/%m/%d') as to_csv(date_format='%Y/%m/%d') applies
\* it to a datetime column: the 'YYYY/MM/DD' text of the day, the time of
\* day is not written
strftime_slash(ts) == ts.day

\* the rows of df whose index is in keep, from index i on, in frame order
RECURSIVE RowsAt(_, _, _)
RowsAt(df, keep, i) ==
    IF i > Len(df)
    THEN <<>>
    ELSE (IF i \in keep THEN <<df[i]>> ELSE <<>>) \o RowsAt(df, keep, i + 1)

\* drop_duplicates keeping the last row of every fecha
DropDuplicatesKeepLast(df) ==
    RowsAt(df, {i \in 1..Len(df) :
                   \A j \in (i + 1)..Len(df) : df[j].fecha # df[i].fecha}, 1)

\* DataFrame.drop_duplicates(subset=['fecha']): of the rows with the same
\* fecha the first is kept (keep='first' is the default)
DropDuplicates(df) ==
    RowsAt(df, {i \in 1..Len(df) :
                   \A j \in 1..(i - 1) : df[j].fecha # df[i].fecha}, 1)

\* to_csv without date_format='%Y/%m/%d': the date cells are not in the
\* form _load_data parses
to_csv_default(df) ==
    [i \in 1..Len(df) |-> <<BadDateStr, df[i].trm>>]

\* DataFrame.to_csv(self.data_path, index=False, date_format='%Y/%m/%d'):
\* the file is overwritten with one row per frame row, in frame order
to_csv(df) ==
    [i \in 1..Len(df) |-> <<strftime_slash(df[i].fecha), df[i].trm>>]

\* TRMRepository.save(data) on the cached frame `cache` and the file f: what
\* it returns, what it leaves in self._data_df and in the file.
\*   - an empty list gives a DataFrame without columns: new_df['fecha']
\*     raises KeyError (line 140), the except clause returns False;
\*   - with nothing loaded the new frame becomes self._data_df as it is
\*     (line 151): neither merged with the file, nor sorted, nor freed of
\*     duplicate dates;
\*   - over the raw frame a failed load left behind, the combined fecha
\*     column mixes strings and Timestamps and sort_values raises TypeError
\*     (line 148): False, nothing assigned, nothing written;
\*   - otherwise cached and new rows are concatenated, de-duplicated on
\*     fecha and sorted (lines 144-149).
\* The frame is then written to the file (line 154).
RepositorySave(cache, f, items) ==
    IF items = <<>>
    THEN {[ret |-> FALSE, data_df |-> cache, file |-> f]}
    ELSE IF cache = None
    THEN {[ret |-> TRUE, data_df |-> [rows |-> ToFrame(items)],
           file |-> to_csv(ToFrame(items))]}
    ELSE IF IsRaw(cache)
    THEN {[ret |-> FALSE, data_df |-> cache, file |-> f]}
    ELSE {[ret |-> TRUE, data_df |-> [rows |-> combined_df], file |-> to_csv(combined_df)] :
            combined_df \in SortValues(DropDuplicates(cache.rows \o ToFrame(items)))}

\* TRMRepository.save
save(items) ==
    /\ \E out \in RepositorySave(data_df, file, items) :
          /\ data_df' = out.data_df
          /\ file' = out.file
          /\ ret' = out.ret
    /\ raised' = None
    /\ call' = [op |-> "save", data |-> items]
    /\ UNCHANGED data

\* the simulated rate of the i-th fetched day (fetch_data line 57)
FetchedValue(i) == 4000 + (i - 1) * 10

\* TRMDataUpdater.fetch_data(days): one record per day from today - days to
\* today, both included (pd.date_range of the two datetimes, freq='D'), the
\* date as 'YYYY-MM-DD' text
fetch_data(today, days) ==
    [i \in 1..(days + 1) |-> [fecha |-> today - days + i - 1, trm |-> FetchedValue(i)]]

\* TRMApplicationService.update_data: every record becomes a TRMData, its
\* date parsed by date.fromisoformat
AppUpdateData(new_data) ==
    [i \in 1..Len(new_data) |-> TRMData(date(new_data[i].fecha), new_data[i].trm)]

\* the days and flags of an update, and the days the fetch may start from
MaxDays == 1
UpdateDays == 0..MaxDays

\* TRMDataUpdater.update_data(days, append) run on day `today`: the fetched
\* records are handed to the application service, which saves them; the
\* append flag is not read
update_data(today, days, append) ==
    /\ today - days >= 1
    /\ \E out \in RepositorySave(data_df, file, AppUpdateData(fetch_data(today, days))) :
          /\ data_df' = out.data_df
          /\ file' = out.file
          /\ ret' = out.ret
    /\ raised' = None
    /\ call' = [op |-> "update_data", days |-> days, append |-> append,
                today |-> today]
    /\ UNCHANGED data

\* a new TRMRepository on the file just saved, and its _load_data; the frame
\* the saving repository holds is kept in the call for comparison
fresh_load ==
    /\ call.op = "save" /\ ret = TRUE
    /\ \E l \in _load_data(file) :
          /\ data_df' = l.cache
          /\ ret' = l.ok
    /\ raised' = None
    /\ call' = [op |-> "_load_data", written |-> data_df]
    /\ UNCHANGED <<file, data>>

\* files and lists of the save scenarios: short, the files over two rates,
\* the lists over two days and a rate no file holds
MaxSave == 2
StoredValues == {100, 110}
SavedValues == {99}
SavedDays == {1, 2}

SaveFiles ==
    {f \in Files : Len(f) <= MaxSave /\ \A i \in 1..Len(f) : f[i][2] \in StoredValues}

SaveLists ==
    UNION {[1..n -> {TRMData(date(d), v) : d \in SavedDays, v \in SavedValues}] :
           n \in 0..MaxSave}

\* one-row files whose date cell does not parse
DamagedSaveFiles ==
    {f \in DamagedFiles : Len(f) = 1 /\ f[1][2] \in StoredValues}

InitSave ==
    /\ file \in SaveFiles \cup DamagedSaveFiles
    /\ data_df = None
    /\ data = <<>>
    /\ call = [op |-> "init"]
    /\ ret = None
    /\ raised = None

\* the repository of a scenario goes on saving while the series it holds is
\* short, and the freshly loaded repository of fresh_load is left alone
CanSave ==
    /\ call.op # "_load_data"
    /\ IF data_df = None THEN TRUE
       ELSE IF IsRaw(data_df) THEN TRUE
       ELSE Len(data_df.rows) <= MaxSave

SaveBounds == {None, date(2)}

NextSave ==
    \/ CanSave /\ \E items \in SaveLists : save(items)
    \/ CanSave /\ \E today \in Dates, days \in UpdateDays, append \in BOOLEAN :
          update_data(today, days, append)
    \/ call.op # "_load_data" /\ get_all
    \/ call.op # "_load_data" /\ \E s, e \in SaveBounds : get_by_date_range(s, e)
    \/ fresh_load

SpecSave == InitSave /\ [][NextSave]_vars

----------------------------------------------------------------------------
(* Claims about saving *)

\* the rows of a frame as a set of (day, value) observations
FrameObs(rows) == {<<rows[i].fecha.day, rows[i].trm>> : i \in 1..Len(rows)}

\* the rows of a frame ascend strictly by fecha: sorted, one row per date
StrictlyAscending(rows) ==
    \A i \in 1..(Len(rows) - 1) :
        TsLE(rows[i].fecha, rows[i + 1].fecha) /\ rows[i].fecha # rows[i + 1].fecha

\* C21: whatever loads, saves and queries came before (a save before any
\* load included), the series the repository holds has unique dates and is
\* sorted ascending by date, and so is every list a query hands out.
C21_SeriesUniqueAndSorted ==
    /\ (data_df # None /\ ~IsRaw(data_df)) => StrictlyAscending(data_df.rows)
    /\ (call.op \in {"get_all", "get_by_date_range"} /\ raised = None) =>
           StrictlyAscending(ToFrame(ret))

\* the date cells and the (date cell, value) rows of a file
FileDays(f) == {f[i][1] : i \in 1..Len(f)}

FileObs(f) == {<<f[i][1], f[i][2]>> : i \in 1..Len(f)}

\* the observations an update of `days` days run on day `today` fetches
FetchedObs(today, days) ==
    {<<fetch_data(today, days)[i].fecha, fetch_data(today, days)[i].trm>> :
        i \in 1..(days + 1)}

\* C23: every step that is a successful TRMDataUpdater.update_data honours
\* the append flag: with append=True every date stored in the file before
\* is still in it afterwards, with append=False the file holds exactly the
\* fetched observations; whether the repository had loaded the file or not.
C23_AppendFlagHonoured ==
    [][(call'.op = "update_data" /\ ret' = TRUE) =>
          /\ call'.append => FileDays(file) \subseteq FileDays(file')
          /\ ~call'.append => FileObs(file') = FetchedObs(call'.today, call'.days)]_vars

\* the rows of a frame ascend by fecha
Ascending(rows) ==
    \A i \in 1..(Len(rows) - 1) : TsLE(rows[i].fecha, rows[i + 1].fecha)

----------------------------------------------------------------------------
(* Claims about the merge of a save *)

FrameDays(rows) == {rows[i].fecha.day : i \in 1..Len(rows)}

\* the values the rows of day d carry
ValuesAt(rows, d) == {rows[i].trm : i \in {j \in 1..Len(rows) : rows[j].fecha.day = d}}

\* the value of the first row of day d
FirstValue(rows, d) ==
    rows[CHOOSE i \in 1..Len(rows) :
            rows[i].fecha.day = d /\ \A j \in 1..(i - 1) : rows[j].fecha.day # d].trm

\* C28: every step that is a successful save on a repository holding a
\* loaded series keeps, for every date of that series, one row with the
\* value stored before (the first one stored for that date), whatever value
\* the incoming list gives that date; every date that is new is added with
\* the value of its (first) incoming observation; nothing else is in the
\* series afterwards, and the file holds exactly that series.
C28_StoredValueKept ==
    [][(call'.op = "save" /\ ret' = TRUE /\ data_df # None /\ ~IsRaw(data_df)) =>
          LET before == data_df.rows
              after == data_df'.rows
              incoming == ToFrame(call'.data)
          IN  /\ \A d \in FrameDays(before) :
                    ValuesAt(after, d) = {FirstValue(before, d)}
              /\ \A d \in FrameDays(incoming) \ FrameDays(before) :
                    ValuesAt(after, d) = {FirstValue(incoming, d)}
              /\ FrameDays(after) = FrameDays(before) \cup FrameDays(incoming)
              /\ Len(after) = Cardinality(FrameDays(after))
              /\ FileObs(file') = FrameObs(after)]_vars

\* a save of two observations, the first on a date the file already had
\* with another value (a value only files carry), the second on a new date:
\* the stored value is in the series, the incoming one of that date is not,
\* and the new date is
C28_Witness ==
    /\ call.op = "save"
    /\ ret = TRUE
    /\ Len(call.data) = MaxSave
    /\ call.data[1].valor = 99
    /\ <<call.data[1].fecha.day, 100>> \in FrameObs(data_df.rows)
    /\ <<call.data[1].fecha.day, 99>> \notin FrameObs(data_df.rows)
    /\ call.data[2].fecha # call.data[1].fecha
    /\ <<call.data[2].fecha.day, call.data[2].valor>> \in FrameObs(data_df.rows)
    /\ Len(data_df.rows) = 2

----------------------------------------------------------------------------
(* Concurrent requests on one TRMRepository *)
(* create_app builds one TRMApplicationService, hence one TRMRepository,   *)
(* that every request handler uses; app.run serves each request in its own *)
(* thread.  In these scenarios call, ret and raised hold one entry per     *)
(* request, and call[t].pc is the line of trm_repository.py the request's  *)
(* get_by_date_range is about to execute.  A step is one statement; the    *)
(* read of the file and the renaming of its columns (lines 41-44) are      *)
(* taken as one step.                                                      *)

Requests == {1, 2}

\* the files served: short ones, rows in any order
MaxShared == 2

SharedFiles == {f \in Files : Len(f) <= MaxShared /\ \A i \in 1..Len(f) : f[i][2] \in StoredValues}

\* the step of request t: its pc moves to `to`, the other request is untouched
Goto(t, to) == call' = [call EXCEPT ![t].pc = to]

\* a request arrives: GET /api/trm with its two optional bounds
Arrive(t, start_date, end_date) ==
    /\ call[t].pc = "idle"
    /\ call' = [call EXCEPT ![t] = [op |-> "get_by_date_range", pc |-> "l88",
                                    start_date |-> start_date, end_date |-> end_date]]
    /\ UNCHANGED <<file, data_df, data, ret, raised>>

\* line 88: if self._data_df is None
CheckLoaded(t) ==
    /\ call[t].pc = "l88"
    /\ Goto(t, IF data_df = None THEN "l41" ELSE "l92")
    /\ UNCHANGED <<file, data_df, data, ret, raised>>

\* lines 41-44: self._data_df = pd.read_csv(...), columns renamed: the frame
\* every request sees is now the raw one, date strings in file order
ReadCsv(t) ==
    /\ call[t].pc = "l41"
    /\ data_df' = [raw |-> file]
    /\ Goto(t, "l47")
    /\ UNCHANGED <<file, data, ret, raised>>

\* line 47: self._data_df['fecha'] = pd.to_datetime(self._data_df['fecha'],
\* format=...), on whatever frame self._data_df is at that moment: a raw
\* frame gets its dates parsed in place, rows still in their order; a frame
\* another request has parsed already stays as it is
ParseDates(t) ==
    /\ call[t].pc = "l47"
    /\ data_df' = IF IsRaw(data_df)
                  THEN [rows |-> [i \in 1..Len(data_df.raw) |->
                                     [fecha |-> to_datetime(data_df.raw[i][1]),
                                      trm |-> data_df.raw[i][2]]]]
                  ELSE data_df
    /\ Goto(t, "l50")
    /\ UNCHANGED <<file, data, ret, raised>>

\* line 50: self._data_df = self._data_df.sort_values('fecha'), again on the
\* frame of that moment; if another request has just put a raw frame there,
\* its 'YYYY/MM/DD' strings are sorted as text, which orders them as dates,
\* and stay strings
SortRows(t) ==
    /\ call[t].pc = "l50"
    /\ IF IsRaw(data_df)
       THEN \E df \in load_data(data_df.raw) : data_df' = [raw |-> to_csv(df)]
       ELSE \E df \in SortValues(data_df.rows) : data_df' = [rows |-> df]
    /\ Goto(t, "l92")
    /\ UNCHANGED <<file, data, ret, raised>>

\* lines 92-109: filtered_df = self._data_df.copy() takes the frame of that
\* moment; the filters and the result list work on the copy
CopyAndFilter(t) ==
    /\ call[t].pc = "l92"
    /\ \E out \in RepositoryGetByDateRange(data_df, file, call[t].start_date,
                                           call[t].end_date) :
          /\ ret' = [ret EXCEPT ![t] = out.ret]
          /\ raised' = [raised EXCEPT ![t] = out.raised]
    /\ Goto(t, "done")
    /\ UNCHANGED <<file, data_df, data>>

InitConcurrent ==
    /\ file \in SharedFiles
    /\ data_df = None
    /\ data = <<>>
    /\ call = [t \in Requests |-> [op |-> "get_by_date_range", pc |-> "idle"]]
    /\ ret = [t \in Requests |-> None]
    /\ raised = [t \in Requests |-> None]

NextConcurrent ==
    \E t \in Requests :
        \/ \E s, e \in SaveBounds : Arrive(t, s, e)
        \/ CheckLoaded(t)
        \/ ReadCsv(t)
        \/ ParseDates(t)
        \/ SortRows(t)
        \/ CopyAndFilter(t)

SpecConcurrent == InitConcurrent /\ [][NextConcurrent]_vars

\* what get_by_date_range(start_date, end_date) returns when it runs alone
\* on the file f
AloneResult(f, start_date, end_date) ==
    {out.ret : out \in RepositoryGetByDateRange(None, f, start_date, end_date)}

\* C22: every request that has finished ended without an exception and
\* with the result it gets when it runs alone on the loaded file, however
\* the steps of the other request were interleaved with its own.
C22_RequestsIsolated ==
    \A t \in Requests :
        call[t].pc = "done" =>
            /\ raised[t] = None
            /\ ret[t] \in AloneResult(file, call[t].start_date, call[t].end_date)

----------------------------------------------------------------------------
(* The stand-alone updater update_trm_data.py *)
(* It writes its frames with to_csv and no date_format, so the date cells  *)
(* of its files are not 'YYYY/MM/DD' text.  A date cell of a file is       *)
(* modelled by an integer: d in Dates is the text 'YYYY/MM/DD' of day d,   *)
(* BadDateStr is text that is no date, and IsoCell(d, t) is the text       *)
(* pandas writes by default for the Timestamp of day d at time of day t    *)
(* ('YYYY-MM-DD', with ' HH:MM:SS.ffffff' when the column has a time).     *)

TimeBase == 10

IsoCell(d, t) == -(d * TimeBase + t)

\* pd.to_datetime(text) without a format: both forms of date text parse
CellTimestamp(c) ==
    IF c > 0
    THEN [day |-> c, time |-> 0]
    ELSE [day |-> (-c) \div TimeBase, time |-> (-c) % TimeBase]

\* the times of day datetime.now() has when the script runs; 0 is midnight
NowTimes == {0, 1, 2}

\* get_trm_data(days): pd.date_range(start=now - days, end=now, freq='D'),
\* one Timestamp per day, each at the time of day of now, with the
\* simulated rates
get_trm_data(today, now, days) ==
    [i \in 1..(days + 1) |->
        [fecha |-> [day |-> today - days + i - 1, time |-> now], trm |-> FetchedValue(i)]]

\* DataFrame.to_csv(output_file, index=False): the fecha column is written
\* in pandas' default text
to_csv_plain(df) ==
    [i \in 1..Len(df) |-> <<IsoCell(df[i].fecha.day, df[i].fecha.time), df[i].trm>>]

\* update_trm_data(output_file, days, append) on an existing file f, run on
\* day `today` at time of day `now`: what it returns and the file it leaves.
\* With append the stored rows are read and their dates parsed (lines
\* 89-92; a cell that is no date raises, the except clause returns False),
\* the fetched rows are appended, rows with the same Timestamp are dropped
\* but for the first, the rows are sorted and written (lines 95-104);
\* without append the fetched rows are written alone (line 118).
UpdateTrmData(f, today, now, days, append) ==
    LET new_data == get_trm_data(today, now, days)
        existing_data == [i \in 1..Len(f) |->
                             [fecha |-> CellTimestamp(f[i][1]), trm |-> f[i][2]]]
    IN  IF ~append
        THEN {[ret |-> TRUE, file |-> to_csv_plain(new_data)]}
        ELSE IF \E i \in 1..Len(f) : f[i][1] = BadDateStr
        THEN {[ret |-> FALSE, file |-> f]}
        ELSE {[ret |-> TRUE, file |-> to_csv_plain(combined_data)] :
                combined_data \in SortValues(DropDuplicates(existing_data \o new_data))}

\* the script is run again while the file is short
MaxUpdateRows == 3

update_trm_data(today, now, days, append) ==
    /\ call.op \in {"init", "update_trm_data"}
    /\ Len(file) <= MaxUpdateRows
    /\ today - days >= 1
    /\ \E out \in UpdateTrmData(file, today, now, days, append) :
          /\ file' = out.file
          /\ ret' = out.ret
    /\ raised' = None
    /\ call' = [op |-> "update_trm_data", days |-> days, append |-> append,
                today |-> today, now |-> now]
    /\ UNCHANGED <<data_df, data>>

\* TRMDataLoader(data_path) on the file as it is: load_data (trm_app.py
\* lines 34-51) has the statements of _load_data
LoaderLoadData ==
    /\ call.op \in {"init", "update_trm_data"}
    /\ \E l \in _load_data(file) :
          /\ data_df' = l.cache
          /\ ret' = l.ok
    /\ raised' = None
    /\ call' = [op |-> "load_data"]
    /\ UNCHANGED <<file, data>>

InitUpdate ==
    /\ file \in SaveFiles \cup DamagedSaveFiles
    /\ data_df = None
    /\ data = <<>>
    /\ call = [op |-> "init"]
    /\ ret = None
    /\ raised = None

NextUpdate ==
    \/ \E today \in Dates, now \in NowTimes, days \in UpdateDays, append \in BOOLEAN :
          update_trm_data(today, now, days, append)
    \/ LoaderLoadData

SpecUpdate == InitUpdate /\ [][NextUpdate]_vars

\* the calendar days of the date cells of a file
CellDays(f) == {CellTimestamp(f[i][1]).day : i \in 1..Len(f)}

\* C25: every step that is a successful update_trm_data with append=True,
\* the first or a repeated one, leaves a file that still has every date it
\* had, has one row per calendar date, is sorted ascending by date, and
\* loads with TRMDataLoader.load_data.
C25_AppendKeepsFileWellFormed ==
    [][(call'.op = "update_trm_data" /\ call'.append /\ ret' = TRUE) =>
          /\ CellDays(file) \subseteq CellDays(file')
          /\ Cardinality(CellDays(file')) = Len(file')
          /\ \A i \in 1..(Len(file') - 1) :
                TsLE(CellTimestamp(file'[i][1]), CellTimestamp(file'[i + 1][1]))
          /\ \A l \in _load_data(file') : l.ok]_vars

----------------------------------------------------------------------------
(* The analytics of TRMDataLoader (trm_data_loader.py) and of TRMService    *)
(* side by side on one series                                              *)

\* files whose rows are in date order: the series the loader holds is the
\* file's, and the list handed to the service is that series
SortedFiles == {f \in Files : \A i \in 1..(Len(f) - 1) : f[i][1] < f[i + 1][1]}

\* TRMStatistics.to_dict: the dates become 'YYYY-MM-DD' text
StatisticsToDict(stats) ==
    [min |-> stats.min_value, max |-> stats.max_value, avg |-> stats.avg_value,
     median |-> stats.median_value, std |-> stats.std_dev, count |-> stats.count,
     start_date |-> strftime(stats.start_date), end_date |-> strftime(stats.end_date),
     start_value |-> stats.start_value, end_value |-> stats.end_value,
     change |-> stats.change, change_pct |-> stats.change_pct]

\* get_statistics whose dict takes its standard deviation over n
LegacyGetStatisticsPopulationStd(stored) ==
    LET filtered_data == LegacyFilter(stored.rows, None, None)
    IN  IF filtered_data = <<>> THEN None
        ELSE [LoaderStatistics(filtered_data) EXCEPT
                 !.std = SeriesStdPopulation(Trm(filtered_data))]

\* TRMDataLoader.get_statistics() of trm_data_loader.py, no bounds given
LegacyGetStatistics(stored) ==
    LET filtered_data == LegacyFilter(stored.rows, None, None)
    IN  IF filtered_data = <<>> THEN None ELSE LoaderStatistics(filtered_data)

\* TRMDataLoader.calculate_moving_average(window): the filtered copy with
\* its ma_<window> column
LegacyCalculateMovingAverage(stored, window) ==
    LET filtered_data == LegacyFilter(stored.rows, None, None)
    IN  IF filtered_data = <<>> THEN None
        ELSE AddColumn(filtered_data, "ma", RollingMean(Trm(filtered_data), window))

\* TRMDataLoader.find_extreme_variations(threshold_pct, start_date,
\* end_date): the rows of the filtered copy whose var_pct exceeds the
\* threshold
LegacyFindExtremeVariations(stored, threshold_pct, start_date, end_date) ==
    LET filtered_data == LegacyFilter(stored.rows, start_date, end_date)
    IN  IF filtered_data = <<>> THEN None
        ELSE SelectSeq(AddColumn(filtered_data, "var_pct", PctChange(Trm(filtered_data))),
                       LAMBDA row : AbsGreater(row.var_pct, threshold_pct))

PositiveWindows == 1..MaxWindow

\* the statistics of the stored series by the loader and by the service
BothStatistics ==
    /\ Loaded
    /\ \E stats \in calculate_statistics(data) :
          ret' = [loader |-> LegacyGetStatistics(data_df),
                  service |-> IF stats = None THEN None ELSE StatisticsToDict(stats)]
    /\ raised' = None
    /\ call' = [op |-> "both", method |-> "statistics"]
    /\ UNCHANGED <<file, data_df, data>>

\* the moving average of the stored series by both
BothMovingAverage ==
    \E window \in PositiveWindows :
        /\ Loaded
        /\ \E ma_data \in calculate_moving_average(data, window) :
              ret' = [loader |-> LegacyCalculateMovingAverage(data_df, window),
                      service |-> ma_data]
        /\ raised' = None
        /\ call' = [op |-> "both", method |-> "moving_average", window |-> window]
        /\ UNCHANGED <<file, data_df, data>>

\* the extreme variations of the stored series by both
BothFindExtremeVariations ==
    \E threshold_pct \in Thresholds :
        /\ Loaded
        /\ \E variations \in find_extreme_variations(data, threshold_pct) :
              ret' = [loader |-> LegacyFindExtremeVariations(data_df, threshold_pct,
                                                         None, None),
                      service |-> variations]
        /\ raised' = None
        /\ call' = [op |-> "both", method |-> "find_extreme_variations",
                    threshold_pct |-> threshold_pct]
        /\ UNCHANGED <<file, data_df, data>>

\* a loader that has loaded a file, and the same series as a list of TRMData
InitParallel ==
    /\ file \in SortedFiles
    /\ data_df \in {[rows |-> df] : df \in load_data(file)}
    /\ data = ToTRMData(data_df.rows)
    /\ call = [op |-> "TRMDataLoader"]
    /\ ret = None
    /\ raised = None

NextParallel ==
    \/ BothStatistics
    \/ BothMovingAverage
    \/ BothFindExtremeVariations

SpecParallel == InitParallel /\ [][NextParallel]_vars

\* C26: on every non-empty series, sorted by date with unique dates, the
\* loader and the service give the same statistics dict, the same moving
\* average at every point (absent at the same points, for every window
\* >= 1) and the same variation records in the same order (for every
\* threshold >= 0).
C26_ImplementationsAgree ==
    (call.op = "both" /\ data # <<>>) =>
        /\ call.method = "statistics" => ret.loader = ret.service
        /\ call.method = "moving_average" =>
              /\ Len(ret.loader) = Len(ret.service)
              /\ \A i \in 1..Len(ret.loader) :
                    /\ DateOf(ret.loader[i].fecha) = ret.service[i].fecha
                    /\ ret.loader[i].trm = ret.service[i].valor
                    /\ ret.loader[i].ma = NaN <=> ret.service[i].promedio_movil = None
                    /\ ret.loader[i].ma # NaN =>
                           ret.loader[i].ma = ret.service[i].promedio_movil
        /\ call.method = "find_extreme_variations" =>
              /\ Len(ret.loader) = Len(ret.service)
              /\ \A i \in 1..Len(ret.loader) :
                    /\ DateOf(ret.loader[i].fecha) = ret.service[i].fecha
                    /\ ret.loader[i].trm = ret.service[i].valor
                    /\ ret.loader[i].var_pct = ret.service[i].variacion_pct

\* the statistics of a full series whose rates differ, with a standard
\* deviation that is a number and not zero
C26_Witness ==
    /\ call.op = "both"
    /\ call.method = "statistics"
    /\ Len(data) = MaxLen
    /\ ret.service.count = MaxLen
    /\ ret.service.min # ret.service.max
    /\ ret.loader.std = ret.service.std
    /\ ret.service.std # NaN

----------------------------------------------------------------------------
(* The variations request on the three presentation surfaces *)

\* TRMVariation.to_dict
VariationToDict(v) ==
    [fecha |-> strftime(v.fecha), trm |-> v.valor, variacion_pct |-> v.variacion_pct]

\* the bounds of a variations request: absent or a 'YYYY-MM-DD' date
VariationBounds == {None, IsoStr(2)}

\* src TRMApplicationService.get_extreme_variations: the frame it leaves in
\* the repository and the list of dicts it returns
AppGetExtremeVariations(cache, f, threshold_pct, start_date, end_date) ==
    UNION {{[data_df |-> out.data_df,
             ret |-> [k \in 1..Len(variations) |-> VariationToDict(variations[k])]] :
                variations \in find_extreme_variations(out.ret, threshold_pct)} :
           out \in RepositoryGetByDateRange(cache, f, AppDate(start_date),
                                            AppDate(end_date))}

\* GET /api/trm/variations of flask_api.py: 'if not data' answers 500
FlaskGetExtremeVariations ==
    \E threshold \in Thresholds, start_date, end_date \in VariationBounds :
        /\ call.op = "init"
        /\ \E out \in AppGetExtremeVariations(data_df, file, threshold,
                                              start_date, end_date) :
              /\ data_df' = out.data_df
              /\ ret' = IF out.ret = <<>>
                        THEN [status |-> 500]
                        ELSE [status |-> 200, json |-> out.ret]
        /\ raised' = None
        /\ call' = [op |-> "extreme_variations", surface |-> "flask_api",
                    threshold |-> threshold,
                    start_date |-> start_date, end_date |-> end_date]
        /\ UNCHANGED <<file, data>>

\* GET /api/trm/variations of api.py: 'if data is None' answers 500,
\* otherwise the rows, none included, are answered with 200
LegacyApiGetExtremeVariations ==
    \E threshold \in Thresholds, start_date, end_date \in VariationBounds :
        /\ Loaded
        /\ LET rows == LegacyFindExtremeVariations(data_df, threshold,
                                                   start_date, end_date)
           IN  ret' = IF LegacyFilter(data_df.rows, start_date, end_date) = <<>>
                      THEN [status |-> 500]
                      ELSE [status |-> 200,
                            json |-> [k \in 1..Len(rows) |->
                                        [fecha |-> strftime(DateOf(rows[k].fecha)),
                                         trm |-> rows[k].trm,
                                         variacion_pct |-> rows[k].var_pct]]]
        /\ raised' = None
        /\ call' = [op |-> "extreme_variations", surface |-> "api",
                    threshold |-> threshold,
                    start_date |-> start_date, end_date |-> end_date]
        /\ UNCHANGED <<file, data_df, data>>

\* the 'var' command of run_cli: without data it prints that no variation
\* was found, with data it prints them; the exit code is 0 either way
CliVar ==
    \E threshold \in Thresholds, start_date, end_date \in VariationBounds :
        /\ call.op = "init"
        /\ \E out \in AppGetExtremeVariations(data_df, file, threshold,
                                              start_date, end_date) :
              /\ data_df' = out.data_df
              /\ ret' = [exit_code |-> 0, printed |-> out.ret]
        /\ raised' = None
        /\ call' = [op |-> "extreme_variations", surface |-> "cli",
                    threshold |-> threshold,
                    start_date |-> start_date, end_date |-> end_date]
        /\ UNCHANGED <<file, data>>

\* an application service over a new repository, or the loader api.py
\* builds when it is imported
InitVariations ==
    /\ file \in SortedFiles
    /\ \/ data_df = None /\ call = [op |-> "init"]
       \/ data_df \in {[rows |-> df] : df \in load_data(file)}
          /\ call = [op |-> "TRMDataLoader"]
    /\ data = <<>>
    /\ ret = None
    /\ raised = None

NextVariations ==
    \/ FlaskGetExtremeVariations
    \/ LegacyApiGetExtremeVariations
    \/ CliVar

SpecVariations == InitVariations /\ [][NextVariations]_vars

\* C27: a variations request whose range holds stored observations is
\* answered with success on every surface (HTTP 200, exit code 0), with the
\* empty list when no change exceeds the threshold; an error is answered
\* only if the range holds no observation.
C27_NoVariationIsSuccess ==
    call.op = "extreme_variations" =>
        LET stored == DaysInBounds(BoundOf(call.start_date), BoundOf(call.end_date))
        IN  IF call.surface = "cli"
            THEN ret.exit_code # 0 => stored = {}
            ELSE ret.status # 200 => stored = {}

----------------------------------------------------------------------------
(* Statistics requested from the application service *)

\* the files of the statistics requests: one row per date, in any row order,
\* with the rates of StoredValues
StatFiles == {f \in Files : \A i \in 1..Len(f) : f[i][2] \in StoredValues}

\* get_statistics computing its statistics over the whole series, the
\* bounds not passed on to the repository
AppGetStatisticsWholeSeries(cache, f, start_date, end_date) ==
    UNION {IF out.raised # None
           THEN {[data_df |-> out.data_df, ret |-> None, raised |-> out.raised]}
           ELSE {[data_df |-> out.data_df,
                  ret |-> IF stats = None THEN None ELSE StatisticsToDict(stats),
                  raised |-> None] : stats \in calculate_statistics(out.ret)}
           : out \in RepositoryGetByDateRange(cache, f, None, None)}

\* src TRMApplicationService.get_statistics once both strings parsed: the
\* frame it leaves in the repository and the dict, or None, it returns
AppGetStatistics(cache, f, start_date, end_date) ==
    UNION {IF out.raised # None
           THEN {[data_df |-> out.data_df, ret |-> None, raised |-> out.raised]}
           ELSE {[data_df |-> out.data_df,
                  ret |-> IF stats = None THEN None ELSE StatisticsToDict(stats),
                  raised |-> None] : stats \in calculate_statistics(out.ret)}
           : out \in RepositoryGetByDateRange(cache, f, AppDate(start_date),
                                              AppDate(end_date))}

\* the strings of a statistics request: absent, no date, or a day in the
\* documented format
StatStrs == {None, Garbage} \cup {IsoStr(d) : d \in Dates}

\* src TRMApplicationService.get_statistics, on a new repository or on one
\* that an earlier request has loaded
CallAppGetStatistics ==
    \E start_date, end_date \in StatStrs :
        /\ call.op \in {"init", "get_statistics"}
        /\ IF AppDatesRaise(start_date, end_date)
           THEN ret' = None /\ raised' = ValueError /\ data_df' = data_df
           ELSE \E out \in AppGetStatistics(data_df, file, start_date, end_date) :
                    /\ data_df' = out.data_df
                    /\ raised' = out.raised
                    /\ ret' = out.ret
        /\ call' = [op |-> "get_statistics",
                    start_date |-> start_date, end_date |-> end_date]
        /\ UNCHANGED <<file, data>>

InitStatistics ==
    /\ file \in StatFiles
    /\ data_df = None
    /\ data = <<>>
    /\ call = [op |-> "init"]
    /\ ret = None
    /\ raised = None

NextStatistics == CallAppGetStatistics

SpecStatistics == InitStatistics /\ [][NextStatistics]_vars

\* the rows of the file whose date lies from day `first` to day `last`
StoredBetween(first, last) ==
    {i \in 1..Len(file) : first <= file[i][1] /\ file[i][1] <= last}

\* C29: a get_statistics(start, end) request that returns a result reports
\* dates with start <= start_date <= end_date <= end (for the bounds that
\* were given), both of them dates of stored observations, and a count that
\* is the number of stored observations dated from start_date to end_date.
C29_StatisticsWithinBounds ==
    (call.op = "get_statistics" /\ raised = None /\ ret # None) =>
        /\ call.start_date # None => call.start_date.day <= ret.start_date
        /\ ret.start_date <= ret.end_date
        /\ call.end_date # None => ret.end_date <= call.end_date.day
        /\ ret.start_date \in FileDays(file)
        /\ ret.end_date \in FileDays(file)
        /\ ret.count = Cardinality(StoredBetween(ret.start_date, ret.end_date))

\* a result over two of three stored observations, the third lying outside
\* the bounds of the request
C29_Witness ==
    /\ call.op = "get_statistics"
    /\ raised = None
    /\ ret # None
    /\ Len(file) = 3
    /\ call.start_date # None
    /\ call.end_date # None
    /\ ret.count = 2
    /\ ret.start_date < ret.end_date

====
